---- MODULE Spec2Model ----
(***************************************************************************)
(* A model of nwkatk-netmon: the collector scheduling loop                 *)
(* (collectors/__init__.py), the device bootstrap (script.py), and the     *)
(* exporters (exporters/influxdb.py, exporters/circonus.py).               *)
(*                                                                         *)
(* asyncio is single-threaded and cooperative: a task runs without         *)
(* interruption from one await to the next, so every action below is the   *)
(* code between two suspension points of one task.                         *)
(***************************************************************************)
EXTENDS Integers, Sequences, FiniteSets, TLC

(***************************************************************************)
(* Bounds of the model.                                                    *)
(***************************************************************************)
\* total number of invocations of collection functions, over all loops
MaxPolls == 3
\* the export calls in flight at once that the limiter specification follows
MaxInFlight == 101
\* the attempts of the export call that the export specification follows
MaxAttempts == 3
\* the seconds of the event loop's clock that the clock specification follows
MaxClock == 5
\* the largest threshold given to the threshold classifier
MaxLevel == 3
\* the largest number of tags of a device, and of a metric
MaxTags == 2
\* the registrations of start entry points the registry specification follows
MaxRegistrations == 3
\* the Circonus export calls the URL specification follows
MaxExports == 3
\* the largest number of characters of a flag of the NX-API adapter
MaxFlagLen == 3

(***************************************************************************)
(* Constants of the program.                                               *)
(***************************************************************************)
\* circonus_sem4 = asyncio.Semaphore(100)
Sem4Capacity == 100

(***************************************************************************)
(* The inventory and the configuration.                                    *)
(***************************************************************************)
Devices == {"d1", "d2"}
\* config.collectors: the IF DOM collector, and a collector type that defines
\* no start of its own (CollectorTypeMeta gives it the default one)
Collectors == {"ifdom", "other"}
Pairs == Devices \X Collectors
\* the pairs whose loops the scheduler specification runs
SchedPairs == Devices \X {"ifdom"}

\* config.device_drivers: os_name -> device driver class
DeviceDrivers == [eos |-> "eapi", nxos |-> "nxapi", ios |-> "ios_ssh"]
Drivers == {"eapi", "nxapi", "ios_ssh"}
\* the os_name of an inventory record; "junos" has no driver in the config
OsNames == {"eos", "nxos", "ios", "junos"}

\* the start entry points registered with a collector (singledispatch on the
\* driver class); "default" is the one that raises RuntimeError. Importing
\* ifdom/eapi.py and ifdom/nxapi.py registers theirs with the IF DOM collector.
ImportedRegistry ==
    [c \in Collectors |->
        [drv \in Drivers |->
            IF c = "ifdom" /\ drv = "eapi" THEN "eapi.start"
            ELSE IF c = "ifdom" /\ drv = "nxapi" THEN "nxapi.start"
            ELSE "default"]]
\* a variant of Registered: one dispatch function shared by every collector
RegisteredWithAll(reg, c, drv, fn) == [cc \in DOMAIN reg |-> [reg[cc] EXCEPT ![drv] = fn]]
\* register(fn): the entry of the driver class fn is annotated with becomes fn
Registered(reg, c, drv, fn) == [reg EXCEPT ![c][drv] = fn]
\* the registries the bootstrap specification starts from: the imported one,
\* and one where a device specific collector package has registered a start
\* for the IOS SSH driver
BootRegistries ==
    {ImportedRegistry, Registered(ImportedRegistry, "ifdom", "ios_ssh", "plugin.start")}

\* CollectorConfigModel.interval, an Optional[PositiveInt]: <<>> is None (the
\* option is not set), <<n>> is n seconds
Intervals == {<<>>, <<30>>}

\* what one invocation of a collection function can end with: an exception,
\* None, or a list of Metric objects (here the opaque objects "m1", "m2")
Batches == {<<>>, <<"m1">>, <<"m1", "m2">>}
PollOutcomes ==
    {[kind |-> "raised", metrics |-> <<>>], [kind |-> "none", metrics |-> <<>>]}
        \cup {[kind |-> "list", metrics |-> b] : b \in Batches}

\* the configuration's exporters (a dict, in insertion order) and the choices
\* of defaults.exporters
ExporterNames == <<"influxdb", "circonus">>
DefaultsExporters == {<<>>, <<"circonus">>}

\* what the backend can answer one export attempt with: an HTTP response (by
\* status class, and whether its body parses as JSON) or an httpx exception
Responses ==
    {"2xx", "4xx", "4xx_nojson", "5xx", "5xx_nojson", "transport_error", "timeout"}

\* the states of a wrapped task: created and not yet run, awaiting the
\* collection function, awaiting asyncio.sleep, ended with an exception
TaskPcs == {"scheduled", "polling", "sleeping", "dead"}

VARIABLES
    executor,       \* the CollectorExecutor: [exporter]
    loop,           \* per pair: [started, interval, cycle, tasks], tasks the
                    \* number of wrapped tasks of the pair in each state
    outcomes,       \* per pair, what each finished invocation ended with
    exportCalls,    \* per pair, the export tasks the loop created, in order
    registry,       \* per collector, the driver classes with a registered start
    device,         \* per device, its async_main_device task: [os_name, st, login]
    startTask,      \* per pair, the task of the collector's start entry point
    sem4,           \* the value of circonus_sem4 (its free permits)
    calls,          \* the number of export calls in an attempt / in a retry wait
    backend,        \* what the backend answers the 1st, 2nd, ... attempt with
    call,           \* one export call: [st, attempts]
    now,            \* the event loop's clock (loop.time()), in seconds
    timer,          \* per pair, the clock when its latest invocation began
                    \* and ended, and when its latest sleep is due
    sample,         \* the values and thresholds given to the threshold classifier
    status,         \* what the classifier returned for them
    tagged,         \* the device tags and the metric tags given to an exporter
    wire,           \* the wire representation an exporter made of them
    ifs,            \* the interface tables a device answers the show commands with
    collect,        \* one invocation of get_dom_metrics: [adapter, st, ts, todo, metrics]
    registered,     \* the calls of register made so far, in order
    environ,        \* os.environ: the value of CIRCONUS_URL, <<>> when not set
    urlCache,       \* the cache of circonus_url: <<>>, or the value it returned
    posted          \* per Circonus export call so far, the URL it took

schedVars == <<executor, loop, outcomes, exportCalls>>
bootVars == <<registry, device, startTask>>
limVars == <<sem4, calls>>
expVars == <<backend, call>>
clockVars == <<now, timer>>
urlVars == <<environ, urlCache, posted>>
unitVars == <<sample, status, tagged, wire, ifs, collect, registered, urlVars>>
vars == <<schedVars, bootVars, limVars, expVars, clockVars, unitVars>>

(***************************************************************************)
(* Exporters: what one attempt of an export call leads to.                 *)
(***************************************************************************)
\* InfluxDBExporter.export_metrics.post_metrics under @retry(wait=...): any
\* exception raised by the attempt is retried after a wait, a return ends the
\* call. The POST raises on a transport failure or timeout; a 4xx is logged
\* with res.json(), which raises when the body is no JSON; a 5xx raises.
InfluxAttempt(resp) ==
    CASE resp \in {"transport_error", "timeout"} -> "backoff"
      [] resp = "2xx" -> "done"
      [] resp = "4xx" -> "done"
      [] resp = "4xx_nojson" -> "backoff"
      [] resp \in {"5xx", "5xx_nojson"} -> "backoff"

\* circonus export_metrics.to_circonus under @retry(wait=...): the PUT raises
\* on a transport failure or timeout; any response is logged and returned
CirconusAttempt(resp) ==
    IF resp \in {"transport_error", "timeout"} THEN "backoff" ELSE "done"

AttemptEnds(exporter, resp) ==
    IF exporter = "influxdb" THEN InfluxAttempt(resp) ELSE CirconusAttempt(resp)
\* what an attempt can lead to, over the answers of the backend
AttemptResults(exporter) == {AttemptEnds(exporter, r) : r \in Responses}

(***************************************************************************)
(* CollectorExecutor                                                       *)
(***************************************************************************)
\* first(iterable): the first element, None (here <<>>) when there is none
first(s) == IF s = <<>> THEN <<>> ELSE <<Head(s)>>

\* CollectorExecutor.__init__: first(defaults.exporters) or first(exporters.keys())
ResolveExporter(defaults) ==
    IF first(defaults) # <<>> THEN first(defaults)[1] ELSE first(ExporterNames)[1]

\* variants of Truthy: the export is also created on the exception path; the
\* test is `metrics is not None`
TruthyOrRaised(o) == o.kind = "raised" \/ (o.kind = "list" /\ o.metrics # <<>>)
NotNone(o) == o.kind = "list"

\* Python truth of what the collection function returned: `if metrics:`
Truthy(o) == o.kind = "list" /\ o.metrics # <<>>

\* the number of invocations made so far, over all loops
RECURSIVE SumCycles(_)
SumCycles(S) ==
    IF S = {} THEN 0
    ELSE LET p == CHOOSE q \in S : TRUE IN loop[p].cycle + SumCycles(S \ {p})
TotalPolls == SumCycles(Pairs)

NoTasks == [pc \in TaskPcs |-> 0]
Move(tasks, from, to) == [tasks EXCEPT ![from] = @ - 1, ![to] = @ + 1]
LiveTasks(p) ==
    loop[p].tasks["scheduled"] + loop[p].tasks["polling"] + loop[p].tasks["sleeping"]

\* the state of each part before it has run
BootIdle ==
    /\ registry = ImportedRegistry
    /\ device = [d \in Devices |-> [os_name |-> "eos", st |-> "new", login |-> "none"]]
    /\ startTask = [p \in Pairs |-> "none"]
LimIdle ==
    /\ sem4 = Sem4Capacity
    /\ calls = [attempt |-> 0, backoff |-> 0]
ExpIdle ==
    /\ backend = <<>>
    /\ call = [st |-> "idle", attempts |-> 0]
ClockIdle ==
    /\ now = 0
    /\ timer = [p \in Pairs |-> [began |-> 0, ended |-> 0, due |-> 0]]
ClassifyIdle == sample = <<>> /\ status = <<>>
WireIdle == tagged = <<>> /\ wire = <<>>
CollectIdle == ifs = <<>> /\ collect = <<>>
RegisterIdle == registered = <<>>
UrlIdle == environ = <<>> /\ urlCache = <<>> /\ posted = <<>>
UnitIdle == ClassifyIdle /\ WireIdle /\ CollectIdle /\ RegisterIdle /\ UrlIdle

\* no loop started yet
NoLoops ==
    /\ loop = [p \in Pairs |->
                 [started |-> FALSE, interval |-> <<>>, cycle |-> 0, tasks |-> NoTasks]]
    /\ outcomes = [p \in Pairs |-> <<>>]
    /\ exportCalls = [p \in Pairs |-> <<>>]

SchedInit ==
    /\ executor \in {[exporter |-> ResolveExporter(d)] : d \in DefaultsExporters}
    /\ NoLoops

\* variant of TasksAtStart: the loop starts with its sleep
TasksAtStartSleeping == [NoTasks EXCEPT !["sleeping"] = 1]

\* the tasks of a pair when start returns: the one it created, which begins
\* with the invocation of the collection function
TasksAtStart == [NoTasks EXCEPT !["scheduled"] = 1]

\* CollectorExecutor.start: wrap the coroutine and create its task; nothing of
\* the task has run when start returns. The collector's start entry point
\* calls it once for its (device, collector) pair.
StartLoop(p, interval) ==
    /\ ~loop[p].started
    /\ loop' = [loop EXCEPT ![p] = [started |-> TRUE, interval |-> interval, cycle |-> 0,
                                    tasks |-> TasksAtStart]]
    /\ UNCHANGED <<executor, outcomes, exportCalls>>

ExecutorStart(p, interval) ==
    /\ StartLoop(p, interval)
    /\ UNCHANGED <<bootVars, limVars, expVars, clockVars, unitVars>>

\* wrapped, up to its first await: the collection function is invoked
WrappedInvokes(p) ==
    /\ loop[p].tasks["scheduled"] > 0
    /\ TotalPolls < MaxPolls
    /\ loop' = [loop EXCEPT ![p].tasks = Move(@, "scheduled", "polling"),
                            ![p].cycle = @ + 1]
    /\ UNCHANGED <<executor, outcomes, exportCalls>>

BeginPoll(p) ==
    /\ WrappedInvokes(p)
    /\ UNCHANGED <<bootVars, limVars, expVars, clockVars, unitVars>>

\* variant of NewExport: the export carries the list of an earlier cycle
NewExportStale(p, o) ==
    [cycle |-> loop[p].cycle, device |-> p[1], exporter |-> executor.exporter,
     metrics |-> IF exportCalls[p] # <<>> THEN exportCalls[p][1].metrics ELSE o.metrics,
     st |-> "attempt"]

\* the export task wrapped creates: export_metrics(device=device, metrics=metrics)
\* of self.exporter; the task starts with its first attempt
NewExport(p, o) ==
    [cycle |-> loop[p].cycle, device |-> p[1], exporter |-> executor.exporter,
     metrics |-> o.metrics, st |-> "attempt"]

\* the export tasks of the pair after the try/except/else of wrapped
ExportsAfter(p, o) ==
    IF Truthy(o) THEN Append(exportCalls[p], NewExport(p, o)) ELSE exportCalls[p]

\* asyncio.sleep(interval): it compares the delay with 0 first, which raises
\* TypeError for None; the task then ends with that exception
AfterSleepCall(interval) == IF interval = <<>> THEN "dead" ELSE "sleeping"

\* wrapped, from the return (or the exception) of the collection function to
\* the await of asyncio.sleep
WrappedHandles(p, o) ==
    /\ loop[p].tasks["polling"] > 0
    /\ outcomes' = [outcomes EXCEPT ![p] = Append(@, o)]
    /\ exportCalls' = [exportCalls EXCEPT ![p] = ExportsAfter(p, o)]
    /\ loop' = [loop EXCEPT ![p].tasks = Move(@, "polling", AfterSleepCall(loop[p].interval))]
    /\ UNCHANGED executor

PollDone(p, o) ==
    /\ WrappedHandles(p, o)
    /\ UNCHANGED <<bootVars, limVars, expVars, clockVars, unitVars>>

\* variant of CanWake: the loop waits for its exports before the next cycle
CanWakeAfterExports(p) ==
    /\ loop[p].tasks["sleeping"] > 0
    /\ \A i \in 1..Len(exportCalls[p]) : exportCalls[p][i].st = "done"

\* variant of CanWake: the sleep ends only while no collection is awaited
CanWakeWhenNoPoll(p) ==
    /\ loop[p].tasks["sleeping"] > 0
    /\ \A q \in Pairs : loop[q].tasks["polling"] = 0

\* what lets a sleeping wrapped task go on: its timer, and nothing else
CanWake(p) == loop[p].tasks["sleeping"] > 0

\* variant of TasksAfterWake: the next task is created and this one sleeps on
WakeKeepsTask(tasks) == [tasks EXCEPT !["scheduled"] = @ + 1]

\* wrapped, after the sleep: create the task of the next cycle, and end
TasksAfterWake(tasks) == Move(tasks, "sleeping", "scheduled")

WrappedReschedules(p) ==
    /\ CanWake(p)
    /\ loop' = [loop EXCEPT ![p].tasks = TasksAfterWake(@)]
    /\ UNCHANGED <<executor, outcomes, exportCalls>>

Wake(p) ==
    /\ WrappedReschedules(p)
    /\ UNCHANGED <<bootVars, limVars, expVars, clockVars, unitVars>>

\* a variant of AttemptInProgress: the exports of a pair are sent one after
\* the other, each after the earlier ones have ended
AttemptInProgressInOrder(p, i) ==
    /\ exportCalls[p][i].st = "attempt"
    /\ \A j \in 1..(i - 1) : exportCalls[p][j].st = "done"

\* the export task awaits the answer to its request: a task of its own,
\* created by wrapped with asyncio.create_task and awaited by nothing
AttemptInProgress(p, i) == exportCalls[p][i].st = "attempt"

\* an attempt of an export task ends, with any answer of the backend: the
\* call returns, or waits to retry
ExportAttemptEnds(p, i, st) ==
    /\ i \in 1..Len(exportCalls[p])
    /\ AttemptInProgress(p, i)
    /\ st \in AttemptResults(exportCalls[p][i].exporter)
    /\ exportCalls' = [exportCalls EXCEPT ![p][i].st = st]
    /\ UNCHANGED <<executor, loop, outcomes, bootVars, limVars, expVars, clockVars, unitVars>>

\* the wait of tenacity's retry ends: the next attempt starts
ExportRetry(p, i) ==
    /\ i \in 1..Len(exportCalls[p])
    /\ exportCalls[p][i].st = "backoff"
    /\ exportCalls' = [exportCalls EXCEPT ![p][i].st = "attempt"]
    /\ UNCHANGED <<executor, loop, outcomes, bootVars, limVars, expVars, clockVars, unitVars>>

SchedNext ==
    \/ \E p \in SchedPairs, i \in Intervals : ExecutorStart(p, i)
    \/ \E p \in SchedPairs : BeginPoll(p)
    \/ \E p \in SchedPairs, o \in PollOutcomes : PollDone(p, o)
    \/ \E p \in SchedPairs : Wake(p)
    \/ \E p \in SchedPairs, i \in 1..MaxPolls, st \in {"done", "backoff"} :
           ExportAttemptEnds(p, i, st)
    \/ \E p \in SchedPairs, i \in 1..MaxPolls : ExportRetry(p, i)

\* the scheduling loops and their export tasks
Init == SchedInit /\ BootIdle /\ LimIdle /\ ExpIdle /\ ClockIdle /\ UnitIdle
Next == SchedNext
Spec == Init /\ [][Next]_vars

(***************************************************************************)
(* One scheduling loop against the event loop's clock.                     *)
(***************************************************************************)
\* the pair whose loop is followed, and the intervals it is started with
ClockPairs == {<<"d1", "ifdom">>}
ClockIntervals == {<<>>, <<1>>, <<2>>}

\* variant of SleepDue: the sleep is counted from the start of the invocation
FixedRateDue(p) ==
    IF loop[p].interval = <<>> THEN timer[p].due
    ELSE timer[p].began + loop[p].interval[1]

\* asyncio.sleep(interval) sets a timer `interval` seconds after the clock's
\* value at the call; with None no timer is set (the call raises)
SleepDue(p) ==
    IF loop[p].interval = <<>> THEN timer[p].due
    ELSE now + loop[p].interval[1]

\* the timer of the pair's sleep has expired
TimerDue(p) == now >= timer[p].due

\* a second passes
Tick ==
    /\ now < MaxClock
    /\ now' = now + 1
    /\ UNCHANGED <<timer, schedVars, bootVars, limVars, expVars, unitVars>>

ClockBeginPoll(p) ==
    /\ WrappedInvokes(p)
    /\ timer' = [timer EXCEPT ![p].began = now]
    /\ UNCHANGED <<now, bootVars, limVars, expVars, unitVars>>

ClockPollDone(p, o) ==
    /\ WrappedHandles(p, o)
    /\ timer' = [timer EXCEPT ![p].ended = now, ![p].due = SleepDue(p)]
    /\ UNCHANGED <<now, bootVars, limVars, expVars, unitVars>>

\* the event loop resumes the sleeping task when its timer has expired
ClockWake(p) ==
    /\ TimerDue(p)
    /\ WrappedReschedules(p)
    /\ UNCHANGED <<clockVars, bootVars, limVars, expVars, unitVars>>

ClockNext ==
    \/ \E p \in ClockPairs, i \in ClockIntervals : ExecutorStart(p, i)
    \/ Tick
    \/ \E p \in ClockPairs : ClockBeginPoll(p)
    \/ \E p \in ClockPairs, o \in PollOutcomes : ClockPollDone(p, o)
    \/ \E p \in ClockPairs : ClockWake(p)

SpecClock == Init /\ [][ClockNext]_vars

(***************************************************************************)
(* The threshold classifier of the eAPI adapter.                           *)
(***************************************************************************)
\* the thresholds of a transceiver, as the device reports them: any four
\* numbers, in any order
ThresholdSets ==
    [lowAlarm : 0..MaxLevel, lowWarn : 0..MaxLevel,
     highWarn : 0..MaxLevel, highAlarm : 0..MaxLevel]
\* the measured values, from below every threshold to above every threshold
Levels == -1..(MaxLevel + 1)
\* the thresholds and the values of the rx power of an optic, in dBm
RxPowerThresholds == [lowAlarm |-> -50, lowWarn |-> -45, highWarn |-> -3, highAlarm |-> 0]
Samples ==
    [v : Levels, w : Levels, t : ThresholdSets]
        \cup {[v |-> -40, w |-> -50, t |-> RxPowerThresholds]}

\* variants of ThresholdOutside: a value on a threshold is inside; the status
\* codes of warn and alert are exchanged
ThresholdOutsideExclusive(value, thresholds) ==
    IF value < thresholds.lowAlarm \/ value > thresholds.highAlarm THEN 2
    ELSE IF value < thresholds.lowWarn \/ value > thresholds.highWarn THEN 1
    ELSE 0
ThresholdOutsideSwapped(value, thresholds) ==
    IF value <= thresholds.lowAlarm \/ value >= thresholds.highAlarm THEN 1
    ELSE IF value <= thresholds.lowWarn \/ value >= thresholds.highWarn THEN 2
    ELSE 0

\* _threshold_outside
ThresholdOutside(value, thresholds) ==
    IF value <= thresholds.lowAlarm \/ value >= thresholds.highAlarm THEN 2
    ELSE IF value <= thresholds.lowWarn \/ value >= thresholds.highWarn THEN 1
    ELSE 0

\* _make_if_metrics computes the status of a measurement
Classify ==
    /\ status = <<>>
    /\ status' = <<ThresholdOutside(sample.v, sample.t), ThresholdOutside(sample.w, sample.t)>>
    /\ UNCHANGED <<sample, tagged, wire, ifs, collect, registered, urlVars>>
    /\ UNCHANGED <<schedVars, bootVars, limVars, expVars, clockVars>>

ClassifyNext == Classify

InitClassify ==
    /\ SchedInit /\ BootIdle /\ LimIdle /\ ExpIdle /\ ClockIdle
    /\ WireIdle /\ CollectIdle /\ RegisterIdle /\ UrlIdle
    /\ sample \in Samples
    /\ status = <<>>
SpecClassify == InitClassify /\ [][ClassifyNext]_vars

(***************************************************************************)
(* The destination URL of the Circonus exporter.                           *)
(***************************************************************************)
\* os.environ.get("CIRCONUS_URL"): not set, or one of two URLs
EnvValues == {<<>>, <<"url1">>, <<"url2">>}

\* a variant of CirconusUrl: the environment is read at every call
CirconusUrlUncached(cache, env) == env
\* circonus_url() under @lru_cache(): the cached value if a call has returned
\* one, else os.environ["CIRCONUS_URL"]; <<>> stands for the KeyError raised
\* when the variable is not set (lru_cache stores no exception)
CirconusUrl(cache, env) == IF cache # <<>> THEN cache ELSE env

\* the process (or its configuration) sets, changes or unsets CIRCONUS_URL
SetEnv(v) ==
    /\ v # environ
    /\ environ' = v
    /\ UNCHANGED <<urlCache, posted>>
    /\ UNCHANGED <<sample, status, tagged, wire, ifs, collect, registered>>
    /\ UNCHANGED <<schedVars, bootVars, limVars, expVars, clockVars>>

\* export_metrics: post_url = circonus_url(); the call is recorded with the
\* URL it took (<<>> if circonus_url raised) and the environment it ran in
CirconusExport ==
    /\ Len(posted) < MaxExports
    /\ posted' = Append(posted, [url |-> CirconusUrl(urlCache, environ), env |-> environ])
    /\ urlCache' = CirconusUrl(urlCache, environ)
    /\ UNCHANGED environ
    /\ UNCHANGED <<sample, status, tagged, wire, ifs, collect, registered>>
    /\ UNCHANGED <<schedVars, bootVars, limVars, expVars, clockVars>>

UrlNext == (\E v \in EnvValues : SetEnv(v)) \/ CirconusExport

InitUrl ==
    /\ SchedInit /\ BootIdle /\ LimIdle /\ ExpIdle /\ ClockIdle
    /\ ClassifyIdle /\ WireIdle /\ CollectIdle /\ RegisterIdle
    /\ environ \in EnvValues
    /\ urlCache = <<>>
    /\ posted = <<>>
SpecUrl == InitUrl /\ [][UrlNext]_vars

(***************************************************************************)
(* Registration of start entry points with the collector types.            *)
(***************************************************************************)
\* the start functions a device specific collector package may register
Handlers == {"eapi.start", "nxapi.start", "plugin.start"}
\* the registry of every collector type when its class has been created:
\* only the default entry point
NewRegistry == [c \in Collectors |-> [drv \in Drivers |-> "default"]]

\* <collector>.start.register: fn, annotated with the driver class drv
Register(c, drv, fn) ==
    /\ Len(registered) < MaxRegistrations
    /\ registry' = Registered(registry, c, drv, fn)
    /\ registered' = Append(registered, <<c, drv, fn>>)
    /\ UNCHANGED <<device, startTask>>
    /\ UNCHANGED <<sample, status, tagged, wire, ifs, collect, urlVars>>
    /\ UNCHANGED <<schedVars, limVars, expVars, clockVars>>

RegistryNext == \E c \in Collectors, drv \in Drivers, fn \in Handlers : Register(c, drv, fn)

InitRegistry ==
    /\ SchedInit /\ LimIdle /\ ExpIdle /\ ClockIdle
    /\ ClassifyIdle /\ WireIdle /\ CollectIdle /\ UrlIdle
    /\ registry = NewRegistry
    /\ device = [d \in Devices |-> [os_name |-> "eos", st |-> "new", login |-> "none"]]
    /\ startTask = [p \in Pairs |-> "none"]
    /\ registered = <<>>
SpecRegistry == InitRegistry /\ [][RegistryNext]_vars

(***************************************************************************)
(* The wire representation of the tags of a metric (exporters).            *)
(***************************************************************************)
TagKeys == {"host", "if_name", "media"}
TagValues == {"x", "y"}
\* a dict of tags: its items in insertion order, no key twice
TagDicts ==
    {d \in UNION {[1..n -> TagKeys \X TagValues] : n \in 0..MaxTags} :
        \A i, j \in DOMAIN d : d[i][1] = d[j][1] => i = j}
\* dict.items()
Items(d) == d
\* the keys of a dict, and the value of a key
Keys(d) == {d[i][1] : i \in DOMAIN d}
ValueOf(d, k) == d[CHOOSE i \in DOMAIN d : d[i][1] = k][2]
\* itertools.chain
Chain(a, b) == a \o b

\* make_influxdb_metric: the labels 'tag=value', joined in the order of all_tags
MakeInfluxdbMetric(device_tags, metric_tags) ==
    LET all_tags == Chain(Items(device_tags), Items(metric_tags))
    IN  [i \in DOMAIN all_tags |-> <<all_tags[i][1], "=", all_tags[i][2]>>]
\* make_circonus_metric: the stream tags 'key:value', joined in the order of all_tags
MakeCirconusMetric(device_tags, metric_tags) ==
    LET all_tags == Chain(Items(device_tags), Items(metric_tags))
    IN  [i \in DOMAIN all_tags |-> <<all_tags[i][1], ":", all_tags[i][2]>>]

\* export_metrics formats a metric for its backend
FormatInfluxdb ==
    /\ wire = <<>>
    /\ wire' = <<[exporter |-> "influxdb",
                  labels |-> MakeInfluxdbMetric(tagged.device, tagged.metric)]>>
    /\ UNCHANGED <<sample, status, tagged, ifs, collect, registered, urlVars>>
    /\ UNCHANGED <<schedVars, bootVars, limVars, expVars, clockVars>>
FormatCirconus ==
    /\ wire = <<>>
    /\ wire' = <<[exporter |-> "circonus",
                  labels |-> MakeCirconusMetric(tagged.device, tagged.metric)]>>
    /\ UNCHANGED <<sample, status, tagged, ifs, collect, registered, urlVars>>
    /\ UNCHANGED <<schedVars, bootVars, limVars, expVars, clockVars>>

WireNext == FormatInfluxdb \/ FormatCirconus

InitWire ==
    /\ SchedInit /\ BootIdle /\ LimIdle /\ ExpIdle /\ ClockIdle
    /\ ClassifyIdle /\ CollectIdle /\ RegisterIdle /\ UrlIdle
    /\ tagged \in [device : TagDicts, metric : TagDicts]
    /\ wire = <<>>
SpecWire == InitWire /\ [][WireNext]_vars

(***************************************************************************)
(* The value of a status metric, in both adapters.                         *)
(***************************************************************************)
\* the characters of a flag of `show interface transceiver details`: the signs
\* of the flags, white space, and any other character
FlagChars == {"+", "-", " ", "x"}
\* the flags _from_flag_to_status is called with: get_dom_metrics skips a flag
\* that is None or the empty string
Flags == UNION {[1..n -> FlagChars] : n \in 1..MaxFlagLen}

\* str.strip(): without the white space at its two ends
RECURSIVE LStrip(_)
LStrip(str) == IF str # <<>> /\ Head(str) = " " THEN LStrip(Tail(str)) ELSE str
RECURSIVE RStrip(_)
RStrip(str) ==
    IF str # <<>> /\ str[Len(str)] = " " THEN RStrip(SubSeq(str, 1, Len(str) - 1)) ELSE str
Strip(str) == RStrip(LStrip(str))

\* a variant of FromFlagToStatus: the status is the number of signs
FromFlagToStatusBySigns(flag) == Len(Strip(flag))
\* _from_flag_to_status: {"++": 2, "--": 2, "+": 1, "-": 1}.get(flag.strip(), 0)
FromFlagToStatus(flag) ==
    IF Strip(flag) \in {<<"+", "+">>, <<"-", "-">>} THEN 2
    ELSE IF Strip(flag) \in {<<"+">>, <<"-">>} THEN 1
    ELSE 0

\* what a status metric is made from: a value and its thresholds (eAPI), or
\* the flag of the device (NX-API)
StatusSamples ==
    [adapter : {"eapi"}, v : Levels, t : ThresholdSets]
        \cup [adapter : {"nxapi"}, flag : Flags]

\* _make_if_metrics makes a status metric: value=_threshold_outside(...)
EapiStatusMetric ==
    /\ sample.adapter = "eapi"
    /\ status = <<>>
    /\ status' = <<ThresholdOutside(sample.v, sample.t)>>
    /\ UNCHANGED <<sample, tagged, wire, ifs, collect, registered, urlVars>>
    /\ UNCHANGED <<schedVars, bootVars, limVars, expVars, clockVars>>
\* generate_metrics makes a status metric: value=_from_flag_to_status(metric_value)
NxapiStatusMetric ==
    /\ sample.adapter = "nxapi"
    /\ status = <<>>
    /\ status' = <<FromFlagToStatus(sample.flag)>>
    /\ UNCHANGED <<sample, tagged, wire, ifs, collect, registered, urlVars>>
    /\ UNCHANGED <<schedVars, bootVars, limVars, expVars, clockVars>>

StatusNext == EapiStatusMetric \/ NxapiStatusMetric

InitStatus ==
    /\ SchedInit /\ BootIdle /\ LimIdle /\ ExpIdle /\ ClockIdle
    /\ WireIdle /\ CollectIdle /\ RegisterIdle /\ UrlIdle
    /\ sample \in StatusSamples
    /\ status = <<>>
SpecStatus == InitStatus /\ [][StatusNext]_vars

(***************************************************************************)
(* One invocation of get_dom_metrics (ifdom/eapi.py, ifdom/nxapi.py).      *)
(***************************************************************************)
\* the interfaces of the device, in the order of the transceiver table
IfNames == <<"Et1", "Et2">>
IfSet == {IfNames[i] : i \in 1..Len(IfNames)}
\* an interface in the transceiver table: no entry, an entry without optic
\* data (eAPI: an empty dict; NX-API: a row without sfp="present" and a
\* temperature), or an entry with the measurements of an optic
DomEntries == {"absent", "empty", "optic"}
\* an interface in the description/status table: no entry (an unused lane of a
\* transceiver), or an entry with its status: link up, link down, or
\* administratively disabled (eAPI "adminDown", NX-API "disabled")
DescEntries == {"absent", "up", "down", "adminDown"}
Adapters == {"eapi", "nxapi"}

\* variant of EapiOkProcessIf: the status of the interface is not looked at
EapiOkAnyStatus(name) == ifs.desc[name] # "absent"

\* eapi get_dom_metrics.__ok_process_if
EapiOkProcessIf(name) ==
    IF ifs.desc[name] = "absent" THEN FALSE
    ELSE IF ifs.desc[name] = "adminDown" THEN FALSE
    ELSE TRUE

\* nxapi generate_metrics: the rows of the status table with this interface
\* and state != "disabled"; the interface is skipped when there is none
NxapiStatusRows(name) ==
    IF ifs.desc[name] \in {"absent", "adminDown"} THEN <<>> ELSE <<ifs.desc[name]>>

\* the interfaces the adapter goes through: eAPI the items of the
\* transceiver table, NX-API the rows its xpath selects
DomItems(adapter) ==
    SelectSeq(IfNames, LAMBDA n : IF adapter = "eapi" THEN ifs.dom[n] # "absent"
                                  ELSE ifs.dom[n] = "optic")

\* whether the adapter makes metrics for the interface
Included(adapter, name) ==
    IF adapter = "eapi" THEN ifs.dom[name] # "empty" /\ EapiOkProcessIf(name)
    ELSE Len(NxapiStatusRows(name)) # 0

\* the timestamp of the metrics of an interface: eAPI's _make_if_metrics
\* calls timestamp_now() for each interface, NX-API uses the one taken on
\* entry to get_dom_metrics
MetricTs(adapter) == IF adapter = "eapi" THEN now ELSE collect.ts

\* the metrics made for one interface: the measurements and their statuses
IfMetrics(adapter, name) ==
    <<[if_name |-> name, kind |-> "value", ts |-> MetricTs(adapter)],
      [if_name |-> name, kind |-> "status", ts |-> MetricTs(adapter)]>>

\* get_dom_metrics up to the await of the show commands; the option
\* include_linkdown of the collector's configuration is not given to it
CollectBegin(adapter, linkdown) ==
    /\ collect.st = "idle"
    /\ collect' = [adapter |-> adapter, include_linkdown |-> linkdown, st |-> "exec",
                   began |-> now, ts |-> IF adapter = "nxapi" THEN now ELSE 0,
                   todo |-> <<>>, metrics |-> <<>>]
    /\ UNCHANGED <<ifs, sample, status, tagged, wire, registered, urlVars>>
    /\ UNCHANGED <<schedVars, bootVars, limVars, expVars, clockVars>>

\* the device has answered the show commands
CollectExecEnds ==
    /\ collect.st = "exec"
    /\ collect' = [collect EXCEPT !.st = "processing", !.todo = DomItems(collect.adapter)]
    /\ UNCHANGED <<ifs, sample, status, tagged, wire, registered, urlVars>>
    /\ UNCHANGED <<schedVars, bootVars, limVars, expVars, clockVars>>

\* the next interface is gone through
CollectIf ==
    /\ collect.st = "processing"
    /\ collect.todo # <<>>
    /\ collect' = [collect EXCEPT
                      !.todo = Tail(@),
                      !.metrics = IF Included(collect.adapter, Head(collect.todo))
                                  THEN @ \o IfMetrics(collect.adapter, Head(collect.todo))
                                  ELSE @]
    /\ UNCHANGED <<ifs, sample, status, tagged, wire, registered, urlVars>>
    /\ UNCHANGED <<schedVars, bootVars, limVars, expVars, clockVars>>

\* the list is returned
CollectReturns ==
    /\ collect.st = "processing"
    /\ collect.todo = <<>>
    /\ collect' = [collect EXCEPT !.st = "returned"]
    /\ UNCHANGED <<ifs, sample, status, tagged, wire, registered, urlVars>>
    /\ UNCHANGED <<schedVars, bootVars, limVars, expVars, clockVars>>

CollectNext ==
    \/ \E a \in Adapters, l \in BOOLEAN : CollectBegin(a, l)
    \/ CollectExecEnds
    \/ CollectIf
    \/ CollectReturns
    \/ Tick

InitCollect ==
    /\ SchedInit /\ BootIdle /\ LimIdle /\ ExpIdle /\ ClockIdle
    /\ ClassifyIdle /\ WireIdle /\ RegisterIdle /\ UrlIdle
    /\ ifs \in [dom : [IfSet -> DomEntries], desc : [IfSet -> DescEntries]]
    /\ collect = [st |-> "idle"]
SpecCollect == InitCollect /\ [][CollectNext]_vars

(***************************************************************************)
(* The bootstrap: async_main_device, one task per inventory record.        *)
(***************************************************************************)
\* DriverBase.prepare: returns, or raises
PrepareOutcomes == {"ok", "runtime_error", "other_error"}

\* Device.login of the IOS SSH driver: driver.open() raises what the transport
\* raises; a failing "show users" is logged and login returns False
IosSshLogin == {"true", "false", "other_error"}
\* login of the eAPI and NX-API drivers: returns True, or raises
ApiLogin == {"true", "runtime_error", "other_error"}
LoginOutcomes(drv) == IF drv = "ios_ssh" THEN IosSshLogin ELSE ApiLogin

\* async_main_device after prepare() or login() raised: RuntimeError is caught
\* and logged, anything else ends the task
AfterRaise(outcome) == IF outcome = "runtime_error" THEN "authfail" ELSE "crashed"

BootInit ==
    /\ registry \in BootRegistries
    /\ device \in [Devices -> {[os_name |-> o, st |-> "new", login |-> "none"] : o \in OsNames}]
    /\ startTask = [p \in Pairs |-> "none"]

\* variant of CanBegin: the records are handled one after the other, and the
\* exception that ends one device's bootstrap ends the bootstrap of the inventory
CanBeginInTurn(d) ==
    /\ device[d].st = "new"
    /\ \A e \in Devices : device[e].st # "crashed"

\* cli_netifdom creates a task of async_main_device for every inventory
\* record; each runs once the event loop runs, whatever becomes of the others
CanBegin(d) == device[d].st = "new"

\* async_main_device up to `await device.login(creds=creds)`
MainDeviceBegin(d, prep) ==
    /\ CanBegin(d)
    /\ device' = [device EXCEPT ![d].st =
                     IF device[d].os_name \notin DOMAIN DeviceDrivers THEN "skipped"
                     ELSE IF prep = "ok" THEN "login"
                     ELSE AfterRaise(prep)]
    /\ UNCHANGED <<registry, startTask, schedVars, limVars, expVars, clockVars, unitVars>>

\* whether async_main_device goes on to start the collectors after login():
\* it does unless login raised; what login returned is not looked at
StartsCollectors(result) == result \in {"true", "false"}

\* async_main_device from the end of login(): a task of the collector's start
\* is created for every collector of the configuration
LoginEnds(d, result) ==
    /\ device[d].st = "login"
    /\ result \in LoginOutcomes(DeviceDrivers[device[d].os_name])
    /\ device' = [device EXCEPT ![d].login = result,
                                ![d].st = IF StartsCollectors(result) THEN "started"
                                          ELSE AfterRaise(result)]
    /\ startTask' = [p \in Pairs |->
                        IF p[1] = d /\ StartsCollectors(result) THEN "created"
                        ELSE startTask[p]]
    /\ UNCHANGED <<registry, schedVars, limVars, expVars, clockVars, unitVars>>

\* the start entry point singledispatch selects for the device's driver class
Dispatch(p) == registry[p[2]][DeviceDrivers[device[p[1]].os_name]]

\* variant of TasksAfterStartRaised: the starts are awaited in the loop of
\* async_main_device, so the exception of one ends the loop and the device's
\* starts that have not run yet are never made
TasksAfterStartAwaited(p) ==
    [q \in Pairs |-> IF q = p THEN "failed"
                     ELSE IF q[1] = p[1] /\ startTask[q] = "created" THEN "none"
                     ELSE startTask[q]]

\* the default start raises RuntimeError inside its own task (each start is
\* handed to asyncio.create_task): that task ends, no other does
TasksAfterStartRaised(p) == [startTask EXCEPT ![p] = "failed"]

\* the task of a collector's start runs: a registered start calls
\* executor.start(get_dom_metrics, interval=config.interval, device=device),
\* the default one raises RuntimeError. (The start is taken as called with the
\* parameters the entry points declare: device, executor, config.)
CollectorStart(p, interval) ==
    /\ startTask[p] = "created"
    /\ IF Dispatch(p) = "default"
       THEN /\ startTask' = TasksAfterStartRaised(p)
            /\ UNCHANGED schedVars
       ELSE /\ startTask' = [startTask EXCEPT ![p] = "done"]
            /\ StartLoop(p, interval)
    /\ UNCHANGED <<registry, device, limVars, expVars, clockVars, unitVars>>

BootNext ==
    \/ \E d \in Devices, prep \in PrepareOutcomes : MainDeviceBegin(d, prep)
    \/ \E d \in Devices, r \in IosSshLogin \cup ApiLogin : LoginEnds(d, r)
    \/ \E p \in Pairs, i \in Intervals : CollectorStart(p, i)
    \/ \E p \in Pairs : BeginPoll(p)

\* the bootstrap of the inventory's devices
InitBoot ==
    /\ executor = [exporter |-> ResolveExporter(<<>>)]
    /\ NoLoops /\ BootInit /\ LimIdle /\ ExpIdle /\ ClockIdle /\ UnitIdle
SpecBoot == InitBoot /\ [][BootNext]_vars

\* the bootstrap followed by the cycles of the loops it started
BootRunNext ==
    \/ BootNext
    \/ \E p \in Pairs, o \in PollOutcomes : PollDone(p, o)
    \/ \E p \in Pairs : Wake(p)
SpecBootRun == InitBoot /\ [][BootRunNext]_vars

(***************************************************************************)
(* The export tasks of the whole process, counted by their progress.       *)
(***************************************************************************)
\* no loop is followed; the executor has resolved its exporter
ExporterInit == SchedInit

InFlight == calls.attempt + calls.backoff

\* wrapped of some loop creates an export task, which starts its first
\* attempt; neither exporter acquires circonus_sem4 (or any other limiter)
LimSpawn ==
    /\ InFlight < MaxInFlight
    /\ calls' = [calls EXCEPT !.attempt = @ + 1]
    /\ UNCHANGED <<sem4, schedVars, bootVars, expVars, clockVars, unitVars>>

\* the attempt of one of the export tasks ends
LimAttemptEnds(resp) ==
    /\ calls.attempt > 0
    /\ calls' = IF AttemptEnds(executor.exporter, resp) = "backoff"
                THEN [attempt |-> calls.attempt - 1, backoff |-> calls.backoff + 1]
                ELSE [calls EXCEPT !.attempt = @ - 1]
    /\ UNCHANGED <<sem4, schedVars, bootVars, expVars, clockVars, unitVars>>

\* the retry wait of one of the export tasks ends
LimRetry ==
    /\ calls.backoff > 0
    /\ calls' = [attempt |-> calls.attempt + 1, backoff |-> calls.backoff - 1]
    /\ UNCHANGED <<sem4, schedVars, bootVars, expVars, clockVars, unitVars>>

LimNext ==
    \/ LimSpawn
    \/ \E r \in Responses : LimAttemptEnds(r)
    \/ LimRetry

InitLimiter == ExporterInit /\ BootIdle /\ LimIdle /\ ExpIdle /\ ClockIdle /\ UnitIdle
SpecLimiter == InitLimiter /\ [][LimNext]_vars

(***************************************************************************)
(* One export call, attempt by attempt.                                    *)
(***************************************************************************)
\* the value of a tag of the batch: a str, bytes that are UTF-8, other bytes
TagData == {"str", "bytes_utf8", "bytes_other"}
\* the formatting of the batch, which export_metrics does before its try:
\* make_circonus_metric's to_str decodes bytes as UTF-8 (UnicodeDecodeError on
\* other bytes); make_influxdb_metric formats any value with an f-string
FormatRaises(exporter, data) == exporter = "circonus" /\ data = "bytes_other"

\* export_metrics up to the await of its first attempt, or up to the
\* exception its formatting raises, which leaves export_metrics
ExpBegin(data) ==
    /\ call.st = "idle"
    /\ call' = IF FormatRaises(executor.exporter, data)
               THEN [st |-> "raised", attempts |-> 0]
               ELSE [st |-> "attempt", attempts |-> 1]
    /\ UNCHANGED <<backend, schedVars, bootVars, limVars, clockVars, unitVars>>

\* the attempt ends with the backend's answer to it
ExpAttemptEnds ==
    /\ call.st = "attempt"
    /\ call' = [call EXCEPT !.st = AttemptEnds(executor.exporter, backend[call.attempts])]
    /\ UNCHANGED <<backend, schedVars, bootVars, limVars, clockVars, unitVars>>

\* tenacity's wait ends and the next attempt starts (no stop condition is
\* given to @retry; the model follows the first MaxAttempts attempts)
ExpRetry ==
    /\ call.st = "backoff"
    /\ call.attempts < MaxAttempts
    /\ call' = [st |-> "attempt", attempts |-> call.attempts + 1]
    /\ UNCHANGED <<backend, schedVars, bootVars, limVars, clockVars, unitVars>>

ExpNext == (\E data \in TagData : ExpBegin(data)) \/ ExpAttemptEnds \/ ExpRetry

InitExport ==
    /\ ExporterInit /\ BootIdle /\ LimIdle /\ ClockIdle /\ UnitIdle
    /\ backend \in [1..MaxAttempts -> Responses]
    /\ call = [st |-> "idle", attempts |-> 0]
SpecExport == InitExport /\ [][ExpNext]_vars

\* the attempts after the first MaxAttempts ones: @retry is given no stop, so
\* tenacity never stops retrying; the backend goes on answering as it answered
\* the last attempt followed
ExpRetryFurther ==
    /\ call.st = "backoff"
    /\ call.attempts = MaxAttempts
    /\ call' = [call EXCEPT !.st = "attempt"]
    /\ UNCHANGED <<backend, schedVars, bootVars, limVars, clockVars, unitVars>>

ExpFairNext == ExpNext \/ ExpRetryFurther

\* the export call as the event loop runs it: every attempt is answered (by a
\* response, or by the exception httpx raises at its timeout), and the timer
\* of every retry wait fires
SpecExportFair == InitExport /\ [][ExpFairNext]_vars /\ WF_vars(ExpFairNext)

(***************************************************************************)
(* Properties of the exporters (specifications SpecLimiter, SpecExport).   *)
(***************************************************************************)
\* C2: the export calls in flight, over all devices and collectors, never
\* exceed the capacity of the limiter.
C2_InFlightWithinCapacity == InFlight <= Sem4Capacity

\* C15: the limiter is held by the export attempts in progress and by nothing
\* else: its free permits are the capacity less the attempts in progress, so
\* no attempt runs without a permit, a call in a retry wait holds none, and
\* with no attempt in progress the limiter is at full capacity.
C15_PermitHeldPerAttempt == sem4 = Sem4Capacity - calls.attempt

\* a retryable failure of an attempt: a transport failure or a 5xx response
RetryableFailures == {"transport_error", "5xx", "5xx_nojson"}

\* C10: when the backend fails the first two attempts with a retryable error
\* and accepts the third, the finished export call has made exactly three
\* attempts.
C10_ThreeAttempts ==
    (/\ backend[1] \in RetryableFailures
     /\ backend[2] \in RetryableFailures
     /\ backend[3] = "2xx"
     /\ call.st = "done") => call.attempts = 3

\* the responses of the client error class and of the server error class
ClientErrors == {"4xx", "4xx_nojson"}
ServerErrors == {"5xx", "5xx_nojson"}
\* attempt k of the export call has been answered
Answered(k) == call.attempts > k \/ (call.attempts = k /\ call.st # "attempt")

\* C11: an export attempt the backend answers with a 4xx response ends the
\* export call: no retry wait and no further attempt follows it, so a call
\* whose first attempt gets a 4xx returns after exactly one attempt.
C11_ClientErrorEndsCall ==
    \A k \in 1..MaxAttempts :
        (backend[k] \in ClientErrors /\ Answered(k)) =>
            (call.attempts = k /\ call.st = "done")

\* C12: with either exporter, an export call never completes on a 5xx
\* response: the attempt answered with a 5xx is followed by a retry wait.
C12_ServerErrorIsRetried ==
    \A k \in 1..MaxAttempts :
        (backend[k] \in ServerErrors /\ Answered(k)) =>
            ~(call.attempts = k /\ call.st = "done")

\* C13: the export call ends only on a success or on a client error, so while
\* every attempt fails with a transport failure or a 5xx it has not ended; and
\* a call that waits to retry can always make its next attempt.
C13_RetriesUnbounded ==
    /\ call.st = "done" => backend[call.attempts] \in {"2xx"} \cup ClientErrors
    /\ call.st = "backoff" => ENABLED ExpFairNext

\* C14: an export call whose attempts all time out eventually ends.
C14_TimedOutCallTerminates ==
    (\A k \in 1..MaxAttempts : backend[k] = "timeout") ~> (call.st = "done")

DriverOf(d) == DeviceDrivers[device[d].os_name]

C17_IntervalNeverNone ==
    \A p \in Pairs : loop[p].started => loop[p].interval # <<>>

C32_OneLoopPerHandledPair ==
    \A p \in Pairs :
        /\ LiveTasks(p) <= 1
        /\ (/\ device[p[1]].login = "true"
            /\ Dispatch(p) # "default"
            /\ startTask[p] = "done") => LiveTasks(p) = 1

(***************************************************************************)
(* Properties of the scheduling loop (specification Spec).                 *)
(***************************************************************************)
LastOutcome(p) == outcomes[p][Len(outcomes[p])]
Falsy(o) == o.kind = "none" \/ (o.kind = "list" /\ o.metrics = <<>>)
TwoMetrics == [kind |-> "list", metrics |-> <<"m1", "m2">>]
\* an export task without its progress
CallOf(e) == [cycle |-> e.cycle, device |-> e.device, exporter |-> e.exporter,
              metrics |-> e.metrics]
CallsOf(p) == [i \in 1..Len(exportCalls[p]) |-> CallOf(exportCalls[p][i])]
\* the export calls of the pair made in its cycles 1..k
CallsUpTo(p, k) == SelectSeq(CallsOf(p), LAMBDA e : e.cycle <= k)
\* the export calls the first k recorded invocations of the pair call for
RECURSIVE ExpectedCalls(_, _)
ExpectedCalls(p, k) ==
    IF k = 0 THEN <<>>
    ELSE IF outcomes[p][k].kind = "list" /\ Len(outcomes[p][k].metrics) > 0
         THEN Append(ExpectedCalls(p, k - 1),
                     [cycle |-> k, device |-> p[1], exporter |-> executor.exporter,
                      metrics |-> outcomes[p][k].metrics])
         ELSE ExpectedCalls(p, k - 1)

\* C1: when the latest invocation of a pair's collection function has raised, the
\* pair's loop is not terminated: a task of it is sleeping, or scheduled or
\* polling for the next invocation.
C1_RaisedPollKeepsLoop ==
    \A p \in Pairs :
        (/\ loop[p].cycle >= 1
         /\ Len(outcomes[p]) = loop[p].cycle
         /\ LastOutcome(p).kind = "raised") => LiveTasks(p) >= 1

\* C4: at most one invocation of the collection function is in progress for a
\* pair, and while the invocation of cycle N+1 is in progress all N earlier
\* invocations have returned or raised.
C4_PollsSequential ==
    \A p \in Pairs :
        /\ loop[p].tasks["polling"] <= 1
        /\ Len(outcomes[p]) = loop[p].cycle - loop[p].tasks["polling"]

C4_Witness ==
    \E p \in Pairs : loop[p].tasks["polling"] = 1 /\ loop[p].cycle >= 2

\* C5: a started loop has no terminal state: none of its tasks has ended
\* without a successor.
C5_NoTerminalState ==
    \A p \in Pairs : loop[p].started => (loop[p].tasks["dead"] = 0 /\ LiveTasks(p) >= 1)

\* C6: the export calls of a loop are, in order, one per cycle that returned a
\* non-empty list, each to the executor's exporter with the pair's device and
\* the list of that cycle; so their number is the number of such cycles.
C6_OneExportPerNonEmptyCycle ==
    \A p \in Pairs : CallsOf(p) = ExpectedCalls(p, Len(outcomes[p]))

C6_Witness ==
    \E p \in Pairs :
        /\ Len(outcomes[p]) = 3
        /\ Len(exportCalls[p]) = 2
        /\ exportCalls[p][1].metrics # exportCalls[p][2].metrics

\* C7: while an export of a pair is in flight, the pair's loop is not held up:
\* its sleeping task can wake and its scheduled task can poll (as long as the
\* model's poll budget lasts).
C7_LoopNeverWaitsForExport ==
    \A p \in Pairs :
        (\E i \in 1..Len(exportCalls[p]) : exportCalls[p][i].st # "done") =>
            /\ loop[p].tasks["sleeping"] > 0 => ENABLED Wake(p)
            /\ (loop[p].tasks["scheduled"] > 0 /\ TotalPolls < MaxPolls)
                   => ENABLED BeginPoll(p)

\* the export of cycle N is in flight while the poll of cycle N+1 is in progress
C7_Witness ==
    \E p \in Pairs : \E i \in 1..Len(exportCalls[p]) :
        /\ exportCalls[p][i].st # "done"
        /\ exportCalls[p][i].cycle + 1 = loop[p].cycle
        /\ loop[p].tasks["polling"] = 1

\* C8: when cycle 1 of a pair raised there is no export call of cycle 1, and
\* when cycle 2 then returned two metrics, the export calls up to cycle 2 are
\* exactly one, with those two metrics.
C8_RaisedCycleExportsNothing ==
    \A p \in Pairs :
        (Len(outcomes[p]) >= 1 /\ outcomes[p][1].kind = "raised") =>
            /\ CallsUpTo(p, 1) = <<>>
            /\ (Len(outcomes[p]) >= 2 /\ outcomes[p][2] = TwoMetrics) =>
                   /\ Len(CallsUpTo(p, 2)) = 1
                   /\ CallsUpTo(p, 2)[1].metrics = <<"m1", "m2">>
                   /\ CallsUpTo(p, 2)[1].cycle = 2

C8_Witness ==
    \E p \in Pairs :
        /\ Len(outcomes[p]) >= 2
        /\ outcomes[p][1].kind = "raised"
        /\ outcomes[p][2] = TwoMetrics
        /\ Len(exportCalls[p]) = 1

\* C9: the step in which an invocation returns None or an empty list creates
\* no export task: the polling task goes to its call of asyncio.sleep and the
\* pair's export calls are unchanged.
C9_EmptyResultNoExport ==
    [][\A p \in Pairs :
          (/\ Len(outcomes'[p]) = Len(outcomes[p]) + 1
           /\ Falsy(outcomes'[p][Len(outcomes'[p])])) =>
              /\ exportCalls'[p] = exportCalls[p]
              /\ loop'[p].tasks["polling"] = loop[p].tasks["polling"] - 1
              /\ loop'[p].tasks["scheduled"] = loop[p].tasks["scheduled"]
              /\ loop'[p].tasks["sleeping"] + loop'[p].tasks["dead"]
                     = loop[p].tasks["sleeping"] + loop[p].tasks["dead"] + 1]_vars

C9_Witness ==
    \E p \in Pairs :
        /\ Len(outcomes[p]) = 2
        /\ outcomes[p][1].kind = "none"
        /\ outcomes[p][2] = [kind |-> "list", metrics |-> <<>>]
        /\ exportCalls[p] = <<>>
        /\ loop[p].tasks["sleeping"] = 1

(***************************************************************************)
(* Properties of the loop's timing (specification SpecClock).              *)
(***************************************************************************)
\* C20: while invocation k+1 of a loop is in progress, it began at least
\* `interval` seconds after invocation k returned or raised.
C20_IntervalBetweenPolls ==
    \A p \in Pairs :
        (loop[p].tasks["polling"] = 1 /\ loop[p].cycle >= 2) =>
            timer[p].began >= timer[p].ended + loop[p].interval[1]

\* the third invocation begins exactly when the sleep after the second one,
\* which raised, is over
C20_Witness ==
    \E p \in Pairs :
        /\ loop[p].tasks["polling"] = 1
        /\ loop[p].cycle = 3
        /\ outcomes[p][2].kind = "raised"
        /\ loop[p].interval = <<2>>
        /\ timer[p].ended >= 1
        /\ timer[p].began = timer[p].ended + 2

\* C21: when start has returned and before the first invocation, the pair has
\* one task, created and not sleeping, no invocation has ended, and the first
\* invocation can begin at once, whatever the clock and the interval.
C21_StartSchedulesAtOnce ==
    \A p \in ClockPairs :
        (loop[p].started /\ loop[p].cycle = 0) =>
            /\ loop[p].tasks = [NoTasks EXCEPT !["scheduled"] = 1]
            /\ outcomes[p] = <<>>
            /\ ENABLED ClockBeginPoll(p)

\* the first invocation is in progress and the clock has not moved since the
\* start
C21_Witness ==
    \E p \in ClockPairs :
        /\ loop[p].interval = <<2>>
        /\ loop[p].cycle = 1
        /\ loop[p].tasks["polling"] = 1
        /\ timer[p].began = 0
        /\ now = 0

(***************************************************************************)
(* Properties of get_dom_metrics (specification SpecCollect).              *)
(***************************************************************************)
\* C22: all metrics made by one invocation carry the same timestamp.
C22_OneTimestampPerCycle ==
    collect.st # "idle" =>
        \A i, j \in 1..Len(collect.metrics) :
            collect.metrics[i].ts = collect.metrics[j].ts

\* C26: every metric of an invocation belongs to an interface that has an
\* entry in the description/status table and is not administratively disabled.
C26_DisabledAndLanesFiltered ==
    collect.st # "idle" =>
        \A i \in 1..Len(collect.metrics) :
            ifs.desc[collect.metrics[i].if_name] \notin {"absent", "adminDown"}

\* an invocation has returned metrics of one interface and none of the other,
\* which has optic data and is disabled or is an unused lane
C26_Witness ==
    /\ collect.st = "returned"
    /\ Len(collect.metrics) = 2
    /\ \E n \in IfSet : ifs.dom[n] = "optic" /\ ifs.desc[n] \in {"absent", "adminDown"}

\* C27: with include_linkdown False, every metric of an invocation belongs to
\* an interface whose link is up.
C27_LinkDownExcludedByDefault ==
    (collect.st # "idle" /\ ~collect.include_linkdown) =>
        \A i \in 1..Len(collect.metrics) :
            ifs.desc[collect.metrics[i].if_name] = "up"

(***************************************************************************)
(* Properties of the threshold classifier (specification SpecClassify).    *)
(***************************************************************************)
\* the status of a value is 2 on or beyond an alarm threshold, otherwise 1 on
\* or beyond a warning threshold, otherwise 0; and the example of the rx power
ClassifiedByRule ==
    /\ status[1] = 2 <=> (sample.v <= sample.t.lowAlarm \/ sample.v >= sample.t.highAlarm)
    /\ status[1] = 1 <=>
           /\ ~(sample.v <= sample.t.lowAlarm \/ sample.v >= sample.t.highAlarm)
           /\ (sample.v <= sample.t.lowWarn \/ sample.v >= sample.t.highWarn)
    /\ status[1] \in {0, 1, 2}
    /\ sample.v = sample.t.lowAlarm => status[1] = 2
    /\ sample.v = sample.t.highAlarm => status[1] = 2
    /\ sample.t = RxPowerThresholds =>
           /\ sample.v = -40 => status[1] = 0
           /\ sample.w = -50 => status[2] = 2

\* C23: the classifier follows the rule, and a value on the low warning
\* threshold gets status 1 when that threshold is above the low alarm
\* threshold.
C23_ClassifierAsStated ==
    status # <<>> =>
        /\ ClassifiedByRule
        /\ (sample.v = sample.t.lowWarn /\ sample.t.lowWarn > sample.t.lowAlarm)
               => status[1] = 1

\* C23, with the condition the boundary needs: the classifier follows the
\* rule, and a value on the low warning threshold gets status 1 when that
\* threshold is above the low alarm threshold and below the high alarm one.
C23_ClassifierByThresholds ==
    status # <<>> =>
        /\ ClassifiedByRule
        /\ (/\ sample.v = sample.t.lowWarn
            /\ sample.t.lowWarn > sample.t.lowAlarm
            /\ sample.t.lowWarn < sample.t.highAlarm) => status[1] = 1

C23_Witness ==
    /\ status # <<>>
    /\ sample.t = [lowAlarm |-> 0, lowWarn |-> 1, highWarn |-> 2, highAlarm |-> 3]
    /\ sample.v = 1
    /\ sample.w = 3
    /\ status = <<1, 2>>

\* the thresholds are in order
Ordered(t) == t.lowAlarm <= t.lowWarn /\ t.lowWarn <= t.highWarn /\ t.highWarn <= t.highAlarm

\* C24: with thresholds in order, of two values below the warning interval
\* the lower one, and of two values above it the higher one, has a status at
\* least as high as the other.
C24_ClassifierMonotonic ==
    (status # <<>> /\ Ordered(sample.t)) =>
        /\ (sample.w <= sample.v /\ sample.v < sample.t.lowWarn) => status[2] >= status[1]
        /\ (sample.w >= sample.v /\ sample.v > sample.t.highWarn) => status[2] >= status[1]

\* a value between the low thresholds with status 1 and a lower one with 2
C24_Witness ==
    /\ status = <<1, 2>>
    /\ Ordered(sample.t)
    /\ sample.t.lowAlarm < sample.t.lowWarn
    /\ sample.w <= sample.t.lowAlarm
    /\ sample.w < sample.v
    /\ sample.v < sample.t.lowWarn

(***************************************************************************)
(* Properties of the wire representation (specification SpecWire).         *)
(***************************************************************************)
\* C25: a key that is a tag of the device and a tag of the metric is in the
\* wire representation once, with the value of the metric.
C25_CollidingKeyOnceWithMetricValue ==
    wire # <<>> =>
        \A k \in Keys(tagged.device) \cap Keys(tagged.metric) :
            \E i \in DOMAIN wire[1].labels :
                /\ wire[1].labels[i][1] = k
                /\ wire[1].labels[i][3] = ValueOf(tagged.metric, k)
                /\ \A j \in DOMAIN wire[1].labels : wire[1].labels[j][1] = k => j = i

\* C30: no exception leaves an export call, whatever fails while the batch is
\* formatted or sent.
C30_ExportNeverRaises == call.st # "raised"

\* C33: the exports of a pair are not ordered: an export attempt in progress
\* can end with any answer, and an export waiting to retry can retry,
\* whatever the state of the pair's other exports; so the exports of
\* consecutive cycles can be in flight together and the later can end first.
C33_ExportsUnordered ==
    \A p \in SchedPairs : \A i \in 1..Len(exportCalls[p]) :
        /\ exportCalls[p][i].st = "attempt" =>
               \A st \in AttemptResults(exportCalls[p][i].exporter) :
                   ENABLED ExportAttemptEnds(p, i, st)
        /\ exportCalls[p][i].st = "backoff" => ENABLED ExportRetry(p, i)

\* the export of cycle 2 has ended while the export of cycle 1 waits to retry
C33_Witness ==
    \E p \in SchedPairs :
        /\ Len(exportCalls[p]) = 2
        /\ exportCalls[p][1].cycle = 1
        /\ exportCalls[p][2].cycle = 2
        /\ exportCalls[p][1].st = "backoff"
        /\ exportCalls[p][2].st = "done"

(***************************************************************************)
(* Independence of the scheduling loops (specification Spec).              *)
(***************************************************************************)
\* the steps the loop and the export tasks of pair q can take depend on the
\* state of q alone (and, for a new invocation, on the invocations followed)
PairCanStep(q) ==
    /\ loop[q].tasks["scheduled"] > 0 /\ TotalPolls < MaxPolls => ENABLED BeginPoll(q)
    /\ loop[q].tasks["polling"] > 0 => \A o \in PollOutcomes : ENABLED PollDone(q, o)
    /\ loop[q].tasks["sleeping"] > 0 => ENABLED Wake(q)
    /\ \A i \in 1..Len(exportCalls[q]) :
           /\ exportCalls[q][i].st = "attempt" => ENABLED ExportAttemptEnds(q, i, "done")
           /\ exportCalls[q][i].st = "backoff" => ENABLED ExportRetry(q, i)
\* C29: while the collection function of a pair has not returned, the loop
\* and the exports of every other pair can take each of their steps, and no
\* step of a pair changes the state of another pair.
C29_HungPollStallsOnlyItsPair ==
    /\ [](\A p, q \in SchedPairs :
             (loop[p].tasks["polling"] > 0 /\ q # p) => PairCanStep(q))
    /\ [][\A p, q \in Pairs :
              (/\ <<loop[p], outcomes[p], exportCalls[p]>>'
                      # <<loop[p], outcomes[p], exportCalls[p]>>
               /\ q # p)
                  => <<loop[q], outcomes[q], exportCalls[q]>>'
                         = <<loop[q], outcomes[q], exportCalls[q]>>]_vars

\* the first invocation of d1 has not returned, and d2 is in its second
\* cycle, the exports of both made and one of them finished
C29_Witness ==
    /\ loop[<<"d1", "ifdom">>].tasks["polling"] = 1
    /\ loop[<<"d1", "ifdom">>].cycle = 1
    /\ loop[<<"d2", "ifdom">>].cycle = 2
    /\ loop[<<"d2", "ifdom">>].tasks["sleeping"] = 1
    /\ Len(exportCalls[<<"d2", "ifdom">>]) = 2
    /\ exportCalls[<<"d2", "ifdom">>][1].st = "done"

(***************************************************************************)
(* Properties of the registration (specification SpecRegistry).            *)
(***************************************************************************)
\* C28: after any sequence of registrations the entry of every driver class
\* with every collector is the handler registered last for that class with
\* that collector (the default one if none was): a registration changes the
\* entry of its driver class with its collector only, and registering a
\* handler again changes nothing.
C28_LastRegistrationWins ==
    \A c \in Collectors, drv \in Drivers :
        LET RegistrationsOf ==
                {i \in DOMAIN registered : registered[i][1] = c /\ registered[i][2] = drv}
            LastRegistered ==
                IF RegistrationsOf = {} THEN "default"
                ELSE registered[CHOOSE i \in RegistrationsOf :
                                    \A j \in RegistrationsOf : j <= i][3]
        IN  registry[c][drv] = LastRegistered

\* a handler replaced by another, with another driver class registered too
C28_Witness ==
    /\ Len(registered) = 3
    /\ registered[1] = <<"ifdom", "eapi", "plugin.start">>
    /\ registered[2] = <<"ifdom", "nxapi", "nxapi.start">>
    /\ registered[3] = <<"ifdom", "eapi", "eapi.start">>
    /\ registry["ifdom"] = [eapi |-> "eapi.start", nxapi |-> "nxapi.start", ios_ssh |-> "default"]
    /\ registry["other"] = [drv \in Drivers |-> "default"]

(***************************************************************************)
(* Properties of the Circonus URL (specification SpecUrl).                 *)
(***************************************************************************)
\* C31: the first export call whose read succeeds takes the URL from the
\* environment as it is then, every earlier call found the variable not set,
\* and every later call takes that same URL, whatever the environment is by
\* then.
C31_UrlFromFirstSuccessfulRead ==
    LET UrlReads == {i \in DOMAIN posted : posted[i].url # <<>>}
    IN  UrlReads # {} =>
        LET j == CHOOSE i \in UrlReads : \A k \in UrlReads : i <= k
        IN  /\ posted[j].url = posted[j].env
            /\ \A i \in 1..(j - 1) : posted[i].env = <<>>
            /\ \A i \in j..Len(posted) : posted[i].url = posted[j].url
            /\ urlCache = posted[j].url

\* a failed read, the first successful one, and a call after the variable
\* has been changed
C31_Witness ==
    /\ Len(posted) = 3
    /\ posted[1] = [url |-> <<>>, env |-> <<>>]
    /\ posted[2] = [url |-> <<"url1">>, env |-> <<"url1">>]
    /\ posted[3] = [url |-> <<"url1">>, env |-> <<"url2">>]

(***************************************************************************)
(* Properties of the status metrics (specification SpecStatus).            *)
(***************************************************************************)
\* C34: the value of every status metric is 0, 1 or 2; the NX-API adapter
\* gives 2 for the flags ++ and --, 1 for + and -, and 0 for any other flag
\* (the flag taken without the white space around it).
C34_StatusInRange ==
    status # <<>> =>
        /\ status[1] \in {0, 1, 2}
        /\ sample.adapter = "nxapi" =>
               /\ status[1] = 2 <=> Strip(sample.flag) \in {<<"+", "+">>, <<"-", "-">>}
               /\ status[1] = 1 <=> Strip(sample.flag) \in {<<"+">>, <<"-">>}

\* a flag of three signs, which is none of the four flags, mapped to 0
C34_Witness ==
    /\ sample.adapter = "nxapi"
    /\ sample.flag = <<"+", "+", "+">>
    /\ status = <<0>>

====
